---- MODULE Spec2Model ----
(***************************************************************************)
(* Model of the pro-estop HAL component (src/pro-estop.c): the E-Stop      *)
(* supervisor of the Pocket NC pro machine.  One step of the model is one  *)
(* invocation of update() by the HAL thread: the components wired to the   *)
(* input pins have written them, update() reads them and runs to its end.  *)
(*                                                                         *)
(* The tick thresholds of the source are kept by name and by order but     *)
(* scaled down, so that every window they delimit is explored tick by      *)
(* tick (source values: DISABLE_MOTOR_TIME 100, UNHOME_TIME 100,           *)
(* RESET_TIME 1000, MACHINE_ON_TIME 1100, STARTUP_TIME 3000,               *)
(* MAX_TIME 6000).  Every property below is stated in terms of the names,  *)
(* never of the scaled numbers.  The machine has five axes (x y z b c)     *)
(* handled by five identical copies of the same code; the model keeps the  *)
(* axes of Axes.                                                           *)
(*                                                                         *)
(* Two more components of the repository are modelled next to it, each in  *)
(* a record of its own and each stepped by its own update(): reset-pin     *)
(* (src/reset-pin.c) in rp and one axis of clearpath_homing                *)
(* (src/clearpath_homing.c) in ch.  The components share nothing; a        *)
(* specification steps one of them and leaves the others as constructed.   *)
(***************************************************************************)
EXTENDS Integers, FiniteSets, Sequences, TLC

\* ------------------------------------------------------------ thresholds
\* Bounds of the model: the tick counts of the source, scaled, in the order
\* of the source and with the reset, machine-on and start-up thresholds
\* apart from each other.
\* #define DISABLE_MOTOR_TIME 100
DISABLE_MOTOR_TIME == 1
\* #define UNHOME_TIME 100
UNHOME_TIME == 2
\* #define RESET_TIME 1000
RESET_TIME == 2
\* #define MACHINE_ON_TIME 1100
MACHINE_ON_TIME == 4
\* #define STARTUP_TIME 3000
STARTUP_TIME == 5
\* #define MAX_TIME 6000
MAX_TIME == 6

\* The axes of the model.
Axes == {"x"}

\* The axes that have a motor enable pin: xMotorEnable .. cMotorEnable.
Motors == {"x", "y", "z", "b", "c"}

\* Values of the spindle-error-code pin (hal_s32_t): no error, and a code.
ErrorCodes == {0, 7}

BOOL == {FALSE, TRUE}

VARIABLES
  \* latched state of data_t
  buttonPushed,
  buttonReleased,
  Faulted,                \* xFaulted .. cFaulted
  FErrored,               \* xFErrored .. cFErrored
  estop,
  estopped,
  spindleErroredWithCode,
  spindleModbusNotOk,
  \* timers of data_t (hal_u32_t; Inc keeps them far below 2^32)
  timeSinceEnable,
  timeSinceEStop,
  timeSinceStartUp,
  timeSinceButtonRelease,
  \* output pins
  userRequestedEnable,
  emcEnable,
  machineOn,
  power,
  MotorEnable,            \* xMotorEnable .. cMotorEnable
  unhome,
  \* Observation of the latest update(): its local reset; whether it took
  \* the branch that latches userRequestedEnable; the number of update()
  \* calls since that branch was last taken (0 on the call that takes it,
  \* -1 before the first); and, of the pins it read and of its other
  \* locals, those that the specification at hand observes.
  reset,
  accepted,
  ticksSinceAccept,
  seen,
  \* The number of consecutive update() calls that ended with estopped set,
  \* counted from the call that set it (1 at the end of that call, 0 while
  \* estopped is clear).
  ticksStopped,
  \* reset-pin: its pins, the period of the thread that runs it, and whether
  \* the last step was another component writing its input pins.
  rp,
  \* clearpath_homing: the fields and pins of one axis, the inputs its last
  \* update() read, and counts of its ticks.
  ch

latches == <<buttonPushed, buttonReleased, Faulted, FErrored,
             spindleErroredWithCode, spindleModbusNotOk>>
timers == <<timeSinceEnable, timeSinceEStop, timeSinceStartUp,
            timeSinceButtonRelease>>
outputs == <<userRequestedEnable, emcEnable, machineOn, power, MotorEnable,
             unhome>>
observed == <<reset, accepted, ticksSinceAccept, seen, ticksStopped>>
vars == <<latches, estop, estopped, timers, outputs, observed>>

\* ------------------------------------------------------------ update()
\* the axis fault pins taken as they are, whatever ignore-com-errors is
MaskCom_Unmasked(raw, ignore) == raw

\* xFault = *(data->xFault) && notIgnoreComErrors
MaskCom(raw, ignore) == raw /\ ~ignore

\* hal_s32_t spindleErrorCode = *(data->spindleErrorCode) && notIgnoreComErrors:
\* the value of && is 0 or 1
MaskedErrorCode(code, ignore) == IF code # 0 /\ ~ignore THEN 1 ELSE 0

\* spindleModbusOk = *(data->spindleModbusOk) || ignoreComErrors
MaskedModbusOk(ok, ignore) == ok \/ ignore

\* the guard closed after an enable request until machine-on is due
preventFaultsFromButtonPushAndStartup_UntilMachineOn(btn) ==
  /\ ~btn
  /\ ~buttonPushed
  /\ timeSinceStartUp > STARTUP_TIME
  /\ timeSinceEnable > MACHINE_ON_TIME
  /\ timeSinceButtonRelease > STARTUP_TIME

\* the guard without the grace time after start and after a button release
preventFaultsFromButtonPushAndStartup_NoGrace(btn) ==
  /\ ~btn
  /\ ~buttonPushed
  /\ timeSinceEnable > RESET_TIME

\* hal_bit_t preventFaultsFromButtonPushAndStartup
preventFaultsFromButtonPushAndStartup(btn) ==
  /\ ~btn
  /\ ~buttonPushed
  /\ timeSinceStartUp > STARTUP_TIME
  /\ timeSinceEnable > RESET_TIME
  /\ timeSinceButtonRelease > STARTUP_TIME

\* a latch that follows its condition instead of holding
LatchBit_Level(latch, cond) == cond

\* if(cond) { ... data->latch = true; }
LatchBit(latch, cond) == latch \/ cond

\* the following-error latches held back by the guard of the axis faults
LatchFErrored_Guarded(xfe, prevent) ==
  [a \in Axes |-> LatchBit(FErrored[a], xfe[a] /\ prevent)]

\* if(xFError) { ... data->xFErrored = true; } .. cFError: the guard
\* preventFaultsFromButtonPushAndStartup is not consulted
LatchFErrored(xfe, prevent) == [a \in Axes |-> LatchBit(FErrored[a], xfe[a])]

\* the axis fault latches set whatever the guard
LatchFaulted_Unguarded(xf, prevent) ==
  [a \in Axes |-> LatchBit(Faulted[a], xf[a])]

\* if(xFault && preventFaultsFromButtonPushAndStartup) { ... } .. cFault
LatchFaulted(xf, prevent) ==
  [a \in Axes |-> LatchBit(Faulted[a], xf[a] /\ prevent)]

\* if(spindleErrorCode != 0 && prevent) data->spindleErroredWithCode = spindleErrorCode
LatchCode(latch, code, prevent) == IF code # 0 /\ prevent THEN code ELSE latch

\* the timer restarted by every release of the button
ReleaseTimer_EveryRelease(btn) ==
  IF buttonPushed /\ ~btn THEN 0 ELSE timeSinceButtonRelease

\* if(buttonPushed && !button) { if(!buttonReleased) timer = 0; ... }:
\* data->timeSinceButtonRelease after the release edge
ReleaseTimer(btn) ==
  IF buttonPushed /\ ~btn /\ ~buttonReleased THEN 0 ELSE timeSinceButtonRelease

\* unhome raised when the timer reaches UNHOME_TIME
Unhome_Inclusive == estopped /\ timeSinceEStop >= UNHOME_TIME

\* unhome raised as soon as estopped is set
Unhome_NoGrace == estopped

\* *(data->unhome), computed before estopped and timeSinceEStop are updated
Unhome == estopped /\ timeSinceEStop > UNHOME_TIME

\* the current fault state without the following errors
CurrentFault_NoFError(xf, xfe, mok, code, btn) ==
  \/ \E a \in Axes : xf[a]
  \/ ~mok
  \/ code # 0
  \/ btn

\* hal_bit_t fault: the current fault state, from the masked inputs
CurrentFault(xf, xfe, mok, code, btn) ==
  \/ \E a \in Axes : xf[a]
  \/ \E a \in Axes : xfe[a]
  \/ ~mok
  \/ code # 0
  \/ btn

\* hal_bit_t faulted: the latched fault value, from the copies of the latches
\* taken when update() was entered
LatchedFault ==
  \/ \E a \in Axes : Faulted[a]
  \/ \E a \in Axes : FErrored[a]
  \/ spindleModbusNotOk
  \/ spindleErroredWithCode # 0
  \/ buttonPushed

\* the automatic request made as soon as the button is released
AcceptRequest_NoWait(ure, tsbr) ==
  ~userRequestedEnable /\ (ure \/ buttonReleased)

\* a request accepted again while one is in progress
AcceptRequest_Reaccept(ure, tsbr) ==
  ure \/ (~userRequestedEnable /\ buttonReleased /\ tsbr > STARTUP_TIME)

\* the condition of "When user initiates an E-Stop reset"; tsbr is
\* data->timeSinceButtonRelease at that point
AcceptRequest(ure, tsbr) ==
  /\ ~userRequestedEnable
  /\ (ure \/ (buttonReleased /\ tsbr > STARTUP_TIME))

\* motors re-enabled one tick late
MotorsOn_Late(tse) == ~(tse <= DISABLE_MOTOR_TIME)

\* the motor enable pins while userRequestedEnable is set
MotorsOn(tse) == ~(tse < DISABLE_MOTOR_TIME)

\* the five motor enable pins written while userRequestedEnable is set, the
\* last of them left as it was
MotorEnables_SkipsC(tse) ==
  [a \in Motors |-> IF a = "c" THEN MotorEnable[a] ELSE MotorsOn(tse)]

\* *(data->xMotorEnable) .. *(data->cMotorEnable) as the request branch
\* writes them: all five false, or all five true
MotorEnables(tse) == [a \in Motors |-> MotorsOn(tse)]

\* reset one tick early (>= for >)
ResetNow_Early(requested, tse) == requested /\ tse >= RESET_TIME

\* reset one tick late
ResetNow_Late(requested, tse) == requested /\ tse > RESET_TIME + 1

\* "Once enough time has elapsed, actually reset the E-Stop."
ResetNow(requested, tse) == requested /\ tse > RESET_TIME

\* a timer that wraps to 0 instead of stopping
Inc_Wrap(t) == IF t <= MAX_TIME THEN t + 1 ELSE 0

\* a timer that stops one tick short of the reset threshold
Inc_StopsAtReset(t) == IF t < RESET_TIME THEN t + 1 ELSE t

\* "prevent potentially overflowing our timer variable"
Inc(t) == IF t <= MAX_TIME THEN t + 1 ELSE t

\* a completed reset grants enable whatever the current fault
EStop_ResetOverridesFault(fault, ue, faulted, rst) ==
  ~(ue /\ (rst \/ (~fault /\ ~faulted)))

\* a completed reset that does not override the latches found on entry
EStop_LatchBlocksReset(fault, ue, faulted, rst) == ~(~fault /\ ue /\ ~faulted)

\* the latched fault value left out of the stop condition
EStop_IgnoresLatch(fault, ue, faulted, rst) == ~(~fault /\ ue)

\* data->estop
EStop(fault, ue, faulted, rst) ==
  ~(~fault /\ ue /\ (~faulted \/ (faulted /\ rst)))

\* estopped following estop instead of holding
EStopped_Level(stop, rst) == stop

\* data->estopped: cleared by the reset, set again when estop holds
EStopped(stop, rst) == IF stop THEN TRUE ELSE IF rst THEN FALSE ELSE estopped

\* the timer never restarted when estopped is set
EStopTimer_NoRestart(stop, rst) == Inc(timeSinceEStop)

\* data->timeSinceEStop: incremented, then restarted when estopped is set
EStopTimer(stop, rst) ==
  IF stop /\ (rst \/ ~estopped) THEN 0 ELSE Inc(timeSinceEStop)

\* polarity of emc-enable inverted
EmcEnable_Inverted(stop) == stop

\* *(data->emcEnable) = !data->estop
EmcEnable(stop) == ~stop

\* machine-on from the timer alone
MachineOn_NoEnable(enable, tse) == tse > MACHINE_ON_TIME

\* machine-on one tick early (>= for >)
MachineOn_Early(enable, tse) == enable /\ tse >= MACHINE_ON_TIME

\* *(data->machineOn)
MachineOn(enable, tse) == enable /\ tse > MACHINE_ON_TIME

\* a message printed by every update() that finds the source's condition true,
\* whatever its latch was on entry
Messages_EveryTick(xf, xfe, code, mok, btn, prevent) ==
  {<<"fault", a>> : a \in {b \in Axes : xf[b] /\ prevent}}
  \cup {<<"ferror", a>> : a \in {b \in Axes : xfe[b]}}
  \cup (IF code # 0 /\ prevent THEN {<<"spindle", code>>} ELSE {})
  \cup (IF ~mok /\ prevent THEN {<<"modbus">>} ELSE {})
  \cup (IF btn THEN {<<"button">>} ELSE {})

\* rtapi_print_msg calls: one message per source, printed when the source
\* is latched by this update() and its latch was clear on entry
Messages(xf, xfe, code, mok, btn, prevent) ==
  {<<"fault", a>> : a \in {b \in Axes : xf[b] /\ prevent /\ ~Faulted[b]}}
  \cup {<<"ferror", a>> : a \in {b \in Axes : xfe[b] /\ ~FErrored[b]}}
  \cup (IF code # 0 /\ prevent /\ spindleErroredWithCode = 0
          THEN {<<"spindle", code>>} ELSE {})
  \cup (IF ~mok /\ prevent /\ ~spindleModbusNotOk THEN {<<"modbus">>} ELSE {})
  \cup (IF btn /\ ~buttonPushed THEN {<<"button">>} ELSE {})

\* The instantaneous fault as a condition on the pins: any axis fault, spindle
\* error code or modbus loss while communication errors are not ignored, any
\* following error, or the button.
RawFault(f, fe, ign, btn, code, modbusOk) ==
  \/ \E a \in Axes : f[a] /\ ~ign
  \/ \E a \in Axes : fe[a]
  \/ (code # 0 /\ ~ign)
  \/ (~modbusOk /\ ~ign)
  \/ btn

\* The fault sources whose condition the pins hold, after masking.
Present(f, fe, ign, btn, code, modbusOk) ==
  {<<"fault", a>> : a \in {b \in Axes : MaskCom(f[b], ign)}}
  \cup {<<"ferror", a>> : a \in {b \in Axes : fe[b]}}
  \cup (IF MaskedErrorCode(code, ign) # 0 THEN {<<"spindle">>} ELSE {})
  \cup (IF ~MaskedModbusOk(modbusOk, ign) THEN {<<"modbus">>} ELSE {})
  \cup (IF btn THEN {<<"button">>} ELSE {})

NextTicksSinceAccept(acc) ==
  IF acc THEN 0
  ELSE IF ticksSinceAccept < 0 THEN ticksSinceAccept
  ELSE IF ticksSinceAccept <= MAX_TIME THEN ticksSinceAccept + 1
  ELSE ticksSinceAccept

\* ticksStopped after an update() that leaves estopped at stopped: rst tells
\* that the reset cleared estopped before it was set again
NextTicksStopped(stopped, rst) ==
  IF ~stopped THEN 0
  ELSE IF rst \/ ~estopped THEN 1
  ELSE IF ticksStopped <= MAX_TIME + 1 THEN ticksStopped + 1
  ELSE ticksStopped

\* The latched fault value as the latch updates of this update() leave it,
\* before the reset branch clears anything: the latches of lines 242-334
\* taken after they are written instead of on entry.
LatchedFaultAfter(f, fe, ign, btn, code, modbusOk) ==
  \E xFault \in {[a \in Axes |-> MaskCom(f[a], ign)]},
     prevent \in {preventFaultsFromButtonPushAndStartup(btn)} :
    \/ \E a \in Axes : LatchFaulted(xFault, prevent)[a]
    \/ \E a \in Axes : LatchFErrored(fe, prevent)[a]
    \/ LatchBit(spindleModbusNotOk,
                ~MaskedModbusOk(modbusOk, ign) /\ prevent)
    \/ LatchCode(spindleErroredWithCode, MaskedErrorCode(code, ign),
                 prevent) # 0
    \/ LatchBit(buttonPushed, btn)

\* stop = NOT(NOT instantaneousFault AND runPermission AND
\*            (NOT anyLatchedFault OR resetCompletedThisTick))
StopFormula(fault, ue, anyLatchedFault, rst) ==
  ~(~fault /\ ue /\ (~anyLatchedFault \/ rst))

\* What a specification can observe of one update(): the pins read, the
\* locals fault, faulted and xFaulted .. cFaulted (the axis fault latches on
\* entry), the condition RawFault of the pins, whether the pins permit
\* running (run permission granted and no RawFault), the messages printed,
\* ticksReleased: the number of consecutive calls, up to this one, that
\* read the button pin released (counted up to STARTUP_TIME + 1), and
\* ferrorInSequence: whether a following-error pin was read true by one of
\* the calls 1 .. RESET_TIME after the call that accepted the last request,
\* axisFaultOnly: the pins hold an axis fault that is not ignored, no
\* following error, the button released and run permission granted, and
\* stillPresent: in a call that completes a reset, the fault sources whose
\* condition the masked pins hold; in the call after it, those of them whose
\* condition the pins hold again, and whether the button is pressed; nothing
\* in any other call.
Observe(n, f, fe, ign, btn, code, modbusOk, ure, ue, fault, faulted, messages) ==
  CASE n = "Fault" -> f
    [] n = "FError" -> fe
    [] n = "ignoreComErrors" -> ign
    [] n = "button" -> btn
    [] n = "spindleErrorCode" -> code
    [] n = "spindleModbusOk" -> modbusOk
    [] n = "userRequestEnable" -> ure
    [] n = "userEnable" -> ue
    [] n = "fault" -> fault
    [] n = "faulted" -> faulted
    [] n = "xFaulted" -> Faulted
    [] n = "rawFault" -> RawFault(f, fe, ign, btn, code, modbusOk)
    [] n = "permitted" -> ue /\ ~RawFault(f, fe, ign, btn, code, modbusOk)
    [] n = "msgs" -> messages
    [] n = "ticksReleased" ->
         IF btn THEN 0
         ELSE IF seen[n] <= STARTUP_TIME THEN seen[n] + 1
         ELSE seen[n]
    [] n = "stillPresent" ->
         IF ResetNow(userRequestedEnable, timeSinceEnable)
           THEN Present(f, fe, ign, btn, code, modbusOk)
         ELSE IF reset
           THEN (seen[n] \cap Present(f, fe, ign, btn, code, modbusOk))
                \cup (IF btn THEN {<<"pressed">>} ELSE {})
         ELSE {}
    [] n = "stopAfterLatching" ->
         StopFormula(fault, ue,
                     LatchedFaultAfter(f, fe, ign, btn, code, modbusOk),
                     ResetNow(userRequestedEnable, timeSinceEnable))
    [] n = "newlyLatched" ->
         ~faulted /\ LatchedFaultAfter(f, fe, ign, btn, code, modbusOk)
    [] n = "comFault" ->
         \/ \E a \in Axes : f[a]
         \/ code # 0
         \/ ~modbusOk
    [] n = "stopWithoutCom" ->
         EStop(CurrentFault([a \in Axes |-> FALSE], fe, TRUE, 0, btn), ue,
               faulted, ResetNow(userRequestedEnable, timeSinceEnable))
    [] n = "ticksRequested" ->
         IF ~ure THEN 0
         ELSE IF seen[n] < RESET_TIME + 3 THEN seen[n] + 1
         ELSE seen[n]
    [] n = "axisFaultOnly" ->
         /\ ue /\ ~btn /\ ~ign
         /\ \E a \in Axes : f[a]
         /\ \A a \in Axes : ~fe[a]
    [] n = "ferrorInSequence" ->
         IF AcceptRequest(ure, ReleaseTimer(btn)) THEN FALSE
         ELSE \/ seen[n]
              \/ /\ \E a \in Axes : fe[a]
                 /\ NextTicksSinceAccept(FALSE) \in 1..RESET_TIME

\* One invocation of update() on the pin values f .. ue.  Each local of the
\* C function is bound once, in the order the function computes it.
update(view, f, fe, ign, btn, code, modbusOk, ure, ue) ==
  \E xFault \in {[a \in Axes |-> MaskCom(f[a], ign)]},
     sCode \in {MaskedErrorCode(code, ign)},
     sModbusOk \in {MaskedModbusOk(modbusOk, ign)},
     prevent \in {preventFaultsFromButtonPushAndStartup(btn)},
     tsbr1 \in {ReleaseTimer(btn)} :
  \E fault \in {CurrentFault(xFault, fe, sModbusOk, sCode, btn)},
     faulted \in {LatchedFault},
     acc \in {AcceptRequest(ure, tsbr1)} :
  \E requested1 \in {userRequestedEnable \/ acc},
     tse1 \in {IF acc THEN 0 ELSE timeSinceEnable} :
  \E rst \in {ResetNow(requested1, tse1)} :
  \E stop \in {EStop(fault, ue, faulted, rst)},
     tse2 \in {Inc(tse1)} :
      /\ unhome' = Unhome
      /\ MotorEnable' = IF requested1 THEN MotorEnables(tse1)
                        ELSE MotorEnable
      /\ Faulted' = IF rst THEN [a \in Axes |-> FALSE]
                    ELSE LatchFaulted(xFault, prevent)
      /\ FErrored' = IF rst THEN [a \in Axes |-> FALSE]
                     ELSE LatchFErrored(fe, prevent)
      /\ spindleErroredWithCode' =
           IF rst THEN 0 ELSE LatchCode(spindleErroredWithCode, sCode, prevent)
      /\ spindleModbusNotOk' =
           IF rst THEN FALSE
           ELSE LatchBit(spindleModbusNotOk, ~sModbusOk /\ prevent)
      /\ buttonPushed' = IF rst THEN FALSE ELSE LatchBit(buttonPushed, btn)
      /\ buttonReleased' =
           IF rst THEN FALSE
           ELSE LatchBit(buttonReleased, buttonPushed /\ ~btn)
      /\ userRequestedEnable' = IF rst THEN FALSE ELSE requested1
      /\ timeSinceButtonRelease' = Inc(tsbr1)
      /\ timeSinceEnable' = tse2
      /\ timeSinceStartUp' = Inc(timeSinceStartUp)
      /\ estop' = stop
      /\ estopped' = EStopped(stop, rst)
      /\ timeSinceEStop' = EStopTimer(stop, rst)
      /\ emcEnable' = EmcEnable(stop)
      /\ machineOn' = MachineOn(EmcEnable(stop), tse2)
      /\ power' = power
      /\ reset' = rst
      /\ accepted' = acc
      /\ ticksSinceAccept' = NextTicksSinceAccept(acc)
      /\ ticksStopped' = NextTicksStopped(EStopped(stop, rst), rst)
      /\ seen' = [n \in view |->
                   Observe(n, f, fe, ign, btn, code, modbusOk, ure, ue,
                           fault, faulted,
                           Messages(xFault, fe, sCode, sModbusOk, btn, prevent))]
      /\ UNCHANGED <<rp, ch>>

\* ------------------------------------------------------------ reset-pin
\* hal_u32_t arithmetic is modulo 2^32; the model keeps the wrap-around and
\* scales the modulus, so that a timer can be followed up to it.
U32_MODULUS == 16
\* *(data->delay) = 100 in rtapi_app_main, scaled with the modulus
DELAY_DEFAULT == 3

\* Periods of the thread update() is added to, in nanoseconds: half a
\* millisecond, one and two.
Periods == {500000, 1000000, 2000000}
\* Values another component writes to the delay pin: none, the default, and
\* the largest hal_u32_t.
Delays == {0, DELAY_DEFAULT, U32_MODULUS - 1}

\* hal_u32_t period_ms = (hal_u32_t)(period_ns/1000/1000);
PeriodMs(period_ns) == ((period_ns \div 1000) \div 1000) % U32_MODULUS

\* instantiate_reset_pin: every pin cleared, delay at its default; the
\* component's function is added to a thread of the given period.
instantiate_reset_pin(period_ns) ==
  [in |-> FALSE, out |-> FALSE, value |-> FALSE, time |-> 0,
   delay |-> DELAY_DEFAULT, period_ns |-> period_ns, written |-> FALSE,
   \* the parity of the number of update() calls so far
   calls |-> 0]

\* update() of reset-pin, the whole function.
rpUpdate ==
  \E period_ms \in {PeriodMs(rp.period_ns)} :
  \E time1 \in {IF rp.in = rp.value THEN 0
                ELSE (rp.time + period_ms) % U32_MODULUS} :
  \E in1 \in {IF rp.in # rp.value /\ time1 > rp.delay THEN rp.value
              ELSE rp.in} :
    rp' = [rp EXCEPT !.time = time1, !.in = in1, !.out = in1,
                     !.written = FALSE, !.calls = 1 - rp.calls]

\* Between two ticks another component writes the in pin (HAL_IO), the value
\* pin or the delay pin (HAL_IN).
rpWrite ==
  \E i \in BOOL, v \in BOOL, d \in Delays :
    /\ <<i, v, d>> # <<rp.in, rp.value, rp.delay>>
    /\ rp' = [rp EXCEPT !.in = i, !.value = v, !.delay = d,
                        !.written = TRUE]

\* ----------------------------------------------------- clearpath_homing
\* Bounds of the model: the cycle counts update() compares with, scaled and
\* in the order of the source.
\* case CYCLE_POWER_OFF: if(data->axis[i].cycles >= 10)
CYCLE_POWER_OFF_CYCLES == 2
\* case CYCLE_POWER_ON: if(data->axis[i].cycles >= 10)
CYCLE_POWER_ON_CYCLES == 2
\* case HOMING: if(data->axis[i].cycles_homed >= 1000)
HOMING_CYCLES == 4
\* case STOP_MOVING: if(data->axis[i].cycles >= 10)
STOP_MOVING_CYCLES == 2
\* case HOMED: if(data->axis[i].cycles >= 500)
HOMED_CYCLES == 3

\* Values of the type pin (hal_u32_t): HARDSTOP, ANGLE, and a value that is
\* neither.
Types == {"HARDSTOP", "ANGLE", "unknown"}
\* Values of the feedback pin (hal_float_t): zero, and a duty cycle.
Feedbacks == {0, 1}
\* The tick counts the model keeps stop counting here.
RunCap == HOMING_CYCLES + 3

\* a tick count compared with its threshold, strictly
Elapsed_Strict(cycles, n) == cycles > n
\* the comparisons of the transitions: cycles >= n
Elapsed(cycles, n) == cycles >= n

\* The transitions of a HARDSTOP axis while the machine is on: new_state.
Transition(state, start_homing, cycles, cycles_homed) ==
  CASE state = "UNPOWERED" -> "POWERED"
    [] state = "POWERED" ->
         IF start_homing THEN "CYCLE_POWER_OFF" ELSE state
    [] state = "CYCLE_POWER_OFF" ->
         IF Elapsed(cycles, CYCLE_POWER_OFF_CYCLES) THEN "CYCLE_POWER_ON"
         ELSE state
    [] state = "CYCLE_POWER_ON" ->
         IF Elapsed(cycles, CYCLE_POWER_ON_CYCLES) THEN "BEGIN_HOMING"
         ELSE state
    [] state = "BEGIN_HOMING" -> "HOMING"
    [] state = "HOMING" ->
         IF Elapsed(cycles_homed, HOMING_CYCLES) THEN "STOP_MOVING"
         ELSE state
    [] state = "STOP_MOVING" ->
         IF Elapsed(cycles, STOP_MOVING_CYCLES) THEN "HOMED" ELSE state
    [] state = "HOMED" ->
         IF Elapsed(cycles, HOMED_CYCLES) THEN "READY" ELSE state
    [] state = "READY" ->
         IF start_homing THEN "CYCLE_POWER_OFF" ELSE state

\* new_state at line 163
NewState(machine_on, type, state, start_homing, cycles, cycles_homed) ==
  IF machine_on
  THEN IF type = "HARDSTOP"
       THEN Transition(state, start_homing, cycles, cycles_homed)
       ELSE state
  ELSE "UNPOWERED"

\* The output pins a HARDSTOP axis writes in new_state.
Outputs(new_state) ==
  [trigger_home |-> new_state = "HOMED",
   homed |-> new_state = "READY",
   homing |-> new_state \in {"CYCLE_POWER_OFF", "CYCLE_POWER_ON",
                            "BEGIN_HOMING", "HOMING", "STOP_MOVING"},
   moving |-> new_state \in {"BEGIN_HOMING", "HOMING"},
   speed |-> IF new_state \in {"BEGIN_HOMING", "HOMING"} THEN 5 ELSE 0,
   enable |-> new_state \notin {"UNPOWERED", "CYCLE_POWER_OFF"}]

\* cycles_homed counted on, whatever the feedback
CountHomed_NoRestart(cycles_homed, feedback) ==
  IF feedback = 0 THEN (cycles_homed + 1) % U32_MODULUS ELSE cycles_homed
\* case HOMING of the outputs: cycles_homed counts the ticks with feedback 0
\* and restarts on any other feedback
CountHomed(cycles_homed, feedback) ==
  IF feedback = 0 THEN (cycles_homed + 1) % U32_MODULUS ELSE 0

\* a tick count kept by the model
Count(n) == IF n < RunCap THEN n + 1 ELSE RunCap

\* rtapi_app_main of clearpath_homing: every pin cleared, type HARDSTOP;
\* state, cycles and cycles_homed are as hal_malloc hands them out, zero.
\* No update() has run: the tick counts are 0.
chConstructed ==
  [state |-> "UNPOWERED", cycles |-> 0, cycles_homed |-> 0,
   start_homing |-> FALSE, machine_on |-> FALSE, type |-> "HARDSTOP",
   trigger_home |-> FALSE, homed |-> FALSE, homing |-> FALSE,
   moving |-> FALSE, speed |-> 0, enable |-> FALSE,
   \* consecutive update() calls, up to the last, that read machine_on true
   \* and type HARDSTOP
   steady |-> 0,
   \* consecutive update() calls, up to the last, that left enable false
   enableOff |-> 0,
   \* consecutive update() calls, up to the last, that left trigger_home true
   triggerOn |-> 0,
   \* consecutive update() calls, up to the last, that left the state HOMING
   \* and read feedback 0
   zeroRun |-> 0]

\* update() of clearpath_homing for one axis, the whole loop body, on the
\* values of the machine_on, type and feedback pins.
chUpdate(machine_on, type, feedback) ==
  \E state \in {ch.state}, start_homing \in {ch.start_homing} :
  \E new_state \in {NewState(machine_on, type, state, start_homing,
                             ch.cycles, ch.cycles_homed)} :
  \E cycles_homed1 \in
       {IF machine_on /\ type = "HARDSTOP" /\ state = "CYCLE_POWER_OFF"
           /\ new_state = "CYCLE_POWER_ON"
        THEN 0 ELSE ch.cycles_homed},
     out \in {IF type = "HARDSTOP" THEN Outputs(new_state)
              ELSE [trigger_home |-> ch.trigger_home, homed |-> ch.homed,
                    homing |-> ch.homing, moving |-> ch.moving,
                    speed |-> ch.speed, enable |-> ch.enable]} :
    ch' = [state |-> new_state,
           cycles |-> IF new_state # state THEN 0
                      ELSE (ch.cycles + 1) % U32_MODULUS,
           cycles_homed |->
             IF type = "HARDSTOP" /\ new_state = "HOMING"
             THEN CountHomed(cycles_homed1, feedback)
             ELSE cycles_homed1,
           start_homing |->
             IF type = "HARDSTOP" /\ new_state = "CYCLE_POWER_OFF"
             THEN FALSE ELSE start_homing,
           machine_on |-> machine_on,
           type |-> type,
           trigger_home |-> out.trigger_home,
           homed |-> out.homed,
           homing |-> out.homing,
           moving |-> out.moving,
           speed |-> out.speed,
           enable |-> out.enable,
           steady |-> IF machine_on /\ type = "HARDSTOP"
                      THEN Count(ch.steady) ELSE 0,
           enableOff |-> IF out.enable THEN 0 ELSE Count(ch.enableOff),
           triggerOn |-> IF out.trigger_home THEN Count(ch.triggerOn) ELSE 0,
           zeroRun |-> IF new_state = "HOMING" /\ feedback = 0
                       THEN Count(ch.zeroRun) ELSE 0]

\* Between two ticks another component writes the start_homing pin (HAL_IO).
chWrite == ch' = [ch EXCEPT !.start_homing = ~ch.start_homing]

\* rtapi_app_main: the pins and fields it sets; the fields of data_t and the
\* pins it does not set are zero (HAL shared memory is handed out cleared).
\* No update() has run: nothing was read, computed or printed.
Constructed(view) ==
  /\ buttonPushed = FALSE
  /\ buttonReleased = FALSE
  /\ Faulted = [a \in Axes |-> FALSE]
  /\ FErrored = [a \in Axes |-> FALSE]
  /\ estop = FALSE
  /\ estopped = FALSE
  /\ spindleErroredWithCode = 0
  /\ spindleModbusNotOk = FALSE
  /\ timeSinceEnable = 0
  /\ timeSinceEStop = 0
  /\ timeSinceStartUp = 0
  /\ timeSinceButtonRelease = 0
  /\ userRequestedEnable = FALSE
  /\ emcEnable = FALSE
  /\ machineOn = FALSE
  /\ power = TRUE
  /\ MotorEnable = [a \in Motors |-> TRUE]
  /\ unhome = FALSE
  /\ reset = FALSE
  /\ accepted = FALSE
  /\ ticksSinceAccept = -1
  /\ ticksStopped = 0
  /\ seen = [n \in view |->
              IF n \in {"ticksReleased", "ticksRequested"} THEN 0
              ELSE IF n = "ferrorInSequence" THEN FALSE
              ELSE IF n = "stillPresent" THEN {}
              ELSE Observe(n, [a \in Axes |-> FALSE], [a \in Axes |-> FALSE],
                           FALSE, FALSE, 0, TRUE, FALSE, FALSE, FALSE, FALSE,
                           {})]

\* The machine as constructed: pro-estop, and next to it reset-pin on a
\* thread of one millisecond and clearpath_homing, neither of them stepped.
Start(view) ==
  /\ Constructed(view)
  /\ rp = instantiate_reset_pin(1000000)
  /\ ch = chConstructed

\* The HAL thread runs update() once per period, on whatever the components
\* wired to the input pins have written.
Tick(view) ==
  \E f \in [Axes -> BOOL], fe \in [Axes -> BOOL], ign \in BOOL, btn \in BOOL,
     code \in ErrorCodes, modbusOk \in BOOL, ure \in BOOL, ue \in BOOL :
    update(view, f, fe, ign, btn, code, modbusOk, ure, ue)

\* ------------------------------------------------------- specifications
\* Every pin free on every tick; nothing of the pins observed.
Init == Start({})
Next == Tick({})
Spec == Init /\ [][Next]_vars

\* The same, observing whether the pins hold a fault condition and the
\* local fault that update() computes from them.
FaultView == {"rawFault", "fault"}
InitFault == Start(FaultView)
NextFault == Tick(FaultView)
SpecFault == InitFault /\ [][NextFault]_vars

\* The same, observing whether the pins permit running, and the axis fault
\* latches on entry.
PermitView == {"permitted", "xFaulted"}
InitPermit == Start(PermitView)
NextPermit == Tick(PermitView)
SpecPermit == InitPermit /\ [][NextPermit]_vars

\* update() with the following-error pins of the last call observed
FErrorView == {"FError"}
InitFError == Start(FErrorView)
NextFError == Tick(FErrorView)
SpecFError == InitFError /\ [][NextFError]_vars

\* update() with the button pin of the last call observed
ButtonView == {"button"}
InitButton == Start(ButtonView)
NextButton == Tick(ButtonView)
SpecButton == InitButton /\ [][NextButton]_vars

\* update() with the messages printed by the last call observed
MsgsView == {"msgs"}
InitMsgs == Start(MsgsView)
NextMsgs == Tick(MsgsView)
SpecMsgs == InitMsgs /\ [][NextMsgs]_vars

\* update() with the spindle error code pin of the last call observed
SpindleView == {"spindleErrorCode"}
InitSpindle == Start(SpindleView)
NextSpindle == Tick(SpindleView)
SpecSpindle == InitSpindle /\ [][NextSpindle]_vars

\* update() with the user-request-enable pin of the last call observed
RequestView == {"userRequestEnable"}
InitRequest == Start(RequestView)
NextRequest == Tick(RequestView)
SpecRequest == InitRequest /\ [][NextRequest]_vars

\* update() with the user-request-enable pin of the last call and the time
\* the button pin has been released observed
ReleaseView == {"userRequestEnable", "ticksReleased"}
InitRelease == Start(ReleaseView)
NextRelease == Tick(ReleaseView)
SpecRelease == InitRelease /\ [][NextRelease]_vars

\* update() observing whether the pins permit running and whether a
\* following error was read during the recovery sequence
SequenceView == {"ferrorInSequence", "permitted"}
InitSequence == Start(SequenceView)
NextSequence == Tick(SequenceView)
SpecSequence == InitSequence /\ [][NextSequence]_vars

\* update() observing whether the pins permit running and whether they hold
\* an axis fault and nothing else that stops
AxisFaultView == {"axisFaultOnly", "permitted"}
InitAxisFault == Start(AxisFaultView)
NextAxisFault == Tick(AxisFaultView)
SpecAxisFault == InitAxisFault /\ [][NextAxisFault]_vars

\* update() observing the fault sources that stay on the pins across a reset
\* and the messages printed
RelatchView == {"stillPresent", "msgs"}
InitRelatch == Start(RelatchView)
NextRelatch == Tick(RelatchView)
SpecRelatch == InitRelatch /\ [][NextRelatch]_vars

\* reset-pin on a thread of any of the periods: its update() once per
\* period, and other components writing its pins between ticks.  The thread
\* keeps running: update() is called again and again.
InitResetPin ==
  /\ Constructed({})
  /\ rp \in {instantiate_reset_pin(p) : p \in Periods}
  /\ ch = chConstructed
NextResetPin ==
  \/ rpUpdate /\ UNCHANGED <<vars, ch>>
  \/ rpWrite /\ UNCHANGED <<vars, ch>>
SpecResetPin ==
  InitResetPin /\ [][NextResetPin]_<<vars, rp, ch>>
               /\ WF_<<vars, rp, ch>>(rpUpdate /\ UNCHANGED <<vars, ch>>)

\* clearpath_homing, one axis: its update() once per period on whatever
\* the machine_on, type and feedback pins hold, and other components
\* writing start_homing between ticks.
InitHoming ==
  /\ Constructed({})
  /\ rp = instantiate_reset_pin(1000000)
  /\ ch = chConstructed
NextHoming ==
  \/ /\ \E machine_on \in BOOL, type \in Types, feedback \in Feedbacks :
          chUpdate(machine_on, type, feedback)
     /\ UNCHANGED <<vars, rp>>
  \/ chWrite /\ UNCHANGED <<vars, rp>>
SpecHoming == InitHoming /\ [][NextHoming]_<<vars, rp, ch>>

\* update() observing the stop formula evaluated on the latches as this
\* call's latch updates leave them, and whether the call set the first latch
StopView == {"stopAfterLatching", "newlyLatched"}
InitStop == Start(StopView)
NextStop == Tick(StopView)
SpecStop == InitStop /\ [][NextStop]_vars

\* update() observing the ignore-com-errors pin, whether the axis fault,
\* spindle error code and modbus pins hold a fault, and the stop value that
\* update() would compute with those pins clear
IgnoreView == {"ignoreComErrors", "comFault", "stopWithoutCom"}
InitIgnore == Start(IgnoreView)
NextIgnore == Tick(IgnoreView)
SpecIgnore == InitIgnore /\ [][NextIgnore]_vars

\* update() observing for how many calls, up to the last, the
\* user-request-enable pin has read asserted (counted up to RESET_TIME + 3,
\* the length of a recovery sequence and the acceptance that follows it)
HeldView == {"ticksRequested"}
InitHeld == Start(HeldView)
NextHeld == Tick(HeldView)
SpecHeld == InitHeld /\ [][NextHeld]_vars

\* ----------------------------------------------------------- properties
AxisFaultLatched == \E a \in Axes : Faulted[a]
FollowingErrorLatched == \E a \in Axes : FErrored[a]

\* every fault-source latch is clear
FaultLatchesClear ==
  /\ ~AxisFaultLatched
  /\ ~FollowingErrorLatched
  /\ spindleErroredWithCode = 0
  /\ ~spindleModbusNotOk
  /\ ~buttonPushed

AllLatchesClear == FaultLatchesClear /\ ~buttonReleased

\* every latch that is set before the step is set after it
LatchesHeld ==
  /\ \A a \in Axes : Faulted[a] => Faulted'[a]
  /\ \A a \in Axes : FErrored[a] => FErrored'[a]
  /\ spindleErroredWithCode # 0 => spindleErroredWithCode' # 0
  /\ spindleModbusNotOk => spindleModbusNotOk'
  /\ buttonPushed => buttonPushed'
  /\ buttonReleased => buttonReleased'

\* some latch is set before the step and clear after it
SomeLatchCleared == ~LatchesHeld

\* C1: on every tick whose pins hold an instantaneous fault, stop is true and
\* emc-enable is false at the end of the tick, whatever the timers, latches,
\* run permission and recovery phase.
C1_StopOnInstantaneousFault == seen.rawFault => estop /\ ~emcEnable

\* a fault on the very tick that completes a reset
C1_Witness == seen.rawFault /\ reset /\ estop /\ ~emcEnable

\* C2: a latch that is set at the end of a tick is set at the end of the next
\* tick unless that tick completes the reset sequence, and at the end of a
\* completing tick all latches are clear together.
C2_LatchMonotonicity ==
  [][/\ ~reset' => LatchesHeld
     /\ reset' => AllLatchesClear']_vars

\* an axis fault latch still held on the last tick before the reset completes
C2_Witness ==
  AxisFaultLatched /\ userRequestedEnable /\ ticksSinceAccept = RESET_TIME

\* C3: if emc-enable is true at the end of a tick then every fault-source
\* latch is clear, run permission was granted and the pins held no
\* instantaneous fault on that tick.
C3_EnableNeverOverLatch == emcEnable => FaultLatchesClear /\ seen.permitted

\* enable granted by the tick that completes the reset of a latched axis fault
C3_Witness == emcEnable /\ reset /\ \E a \in Axes : seen.xFaulted[a]

\* C4: whenever stop is true stopped is true, and stopped goes from true to
\* false only on a tick that completes the reset sequence.
C4_StoppedSticky ==
  /\ [](estop => estopped)
  /\ [][estopped /\ ~estopped' => reset']_vars

\* stopped held although stop has cleared and no reset has completed
C4_Witness == estopped /\ ~estop /\ ~reset

\* C5 as stated: emc-enable true implies the sticky stopped flag is false.
C5_EnableImpliesNotStopped == emcEnable => ~estopped

\* C5 amended: emc-enable true implies that stop is false; the sticky stopped
\* flag is false as well on a tick that completes a reset.
C5_EnableImpliesNotStop == emcEnable => ~estop /\ (reset => ~estopped)

\* enable granted while the sticky flag is still set
C5_Witness == emcEnable /\ estopped

\* C6: if machine-on is true then emc-enable is true and stop is false.
C6_MachineOnImpliesEnable == machineOn => emcEnable /\ ~estop

C6_Witness == machineOn /\ emcEnable

\* C7: a latch goes from set to clear only on a tick that began with
\* userRequestedEnable true and that is more than RESET_TIME ticks after the
\* tick that accepted the request, which has been in progress on every tick
\* in between.
C7_RecoveryNotRushed ==
  /\ [](ticksSinceAccept \in 0..RESET_TIME => userRequestedEnable)
  /\ [][SomeLatchCleared =>
          /\ userRequestedEnable
          /\ ticksSinceAccept = RESET_TIME
          /\ ticksSinceAccept' = RESET_TIME + 1
          /\ reset']_vars

\* the tick that clears a latched axis fault
C7_Witness ==
  /\ reset
  /\ ticksSinceAccept = RESET_TIME + 1
  /\ \E a \in Axes : seen.xFaulted[a] /\ ~Faulted[a]

C9_RecoveryCompletion ==
  /\ [][ticksSinceAccept' \in 0..RESET_TIME => LatchesHeld]_vars
  /\ [](ticksSinceAccept = RESET_TIME + 1 =>
          /\ AllLatchesClear
          /\ ~userRequestedEnable
          /\ (seen.permitted => ~estop /\ ~estopped /\ emcEnable))

\* the completing tick of a recovery from a latched axis fault
C9_Witness ==
  /\ ticksSinceAccept = RESET_TIME + 1
  /\ \E a \in Axes : seen.xFaulted[a]
  /\ ~estop /\ ~estopped /\ emcEnable

\* C10 as stated: machine-on is false at the end of every tick
\* 0 .. MACHINE_ON_TIME after the accepting tick.
C10_MachineOnDelayInclusive ==
  ticksSinceAccept \in 0..MACHINE_ON_TIME => ~machineOn

\* C10 amended: machine-on is false at the end of every tick
\* 0 .. MACHINE_ON_TIME - 1 after the accepting tick.
C10_MachineOnDelay ==
  ticksSinceAccept \in 0..(MACHINE_ON_TIME - 1) => ~machineOn

\* machine-on true at the end of tick MACHINE_ON_TIME
C10_Witness == ticksSinceAccept = MACHINE_ON_TIME /\ machineOn

\* C11: a following-error pin that is true during an update() sets that axis's
\* following-error latch in the same call, whatever the startup timer, the
\* enable-request timer, the button-release timer, the button and the
\* ignore-com-errors pin are; the latch is still set when the call returns
\* unless the reset completed in that call.
C11_FollowingErrorBypass ==
  \A a \in Axes : (seen.FError[a] /\ ~reset) => FErrored[a]

\* a following error latched by the very first update(), at a time where the
\* guard of the other fault latches is closed
C11_Witness ==
  /\ timeSinceStartUp = 1
  /\ \E a \in Axes : seen.FError[a] /\ FErrored[a]

\* One of the guarded latches (an axis fault latch, the latched spindle error
\* code, the modbus-not-ok latch) is clear before an update() and set after it.
GuardedLatchRises ==
  \/ \E a \in Axes : ~Faulted[a] /\ Faulted'[a]
  \/ spindleErroredWithCode = 0 /\ spindleErroredWithCode' # 0
  \/ ~spindleModbusNotOk /\ spindleModbusNotOk'

\* The guard of those latches as the claim states it: the button pin read by
\* the call is released, and on entry to the call the button latch is clear
\* and the startup, enable-request and button-release timers are past their
\* thresholds.
GuardOpenOnEntry ==
  /\ ~seen'.button
  /\ ~buttonPushed
  /\ timeSinceStartUp > STARTUP_TIME
  /\ timeSinceEnable > RESET_TIME
  /\ timeSinceButtonRelease > STARTUP_TIME

\* C12 as stated: a guarded latch goes from clear to set only in a call that
\* finds the guard open on entry, and in particular in no call 0 .. RESET_TIME
\* of a recovery sequence.
C12_GuardedLatchingWholeSequence ==
  [][GuardedLatchRises =>
       GuardOpenOnEntry /\ ticksSinceAccept' \notin 0..RESET_TIME]_vars

\* C12 amended: a guarded latch goes from clear to set only in a call that
\* finds the guard open on entry, and in particular in no call 1 .. RESET_TIME
\* of a recovery sequence; the accepting call 0 evaluates the guard before it
\* restarts the enable-request timer and can still latch.
C12_GuardedLatching ==
  [][GuardedLatchRises =>
       GuardOpenOnEntry /\ ticksSinceAccept' \notin 1..RESET_TIME]_vars

\* an axis fault latched by the first call that finds the guard open, which is
\* also the call that accepts an enable request
C12_Witness ==
  /\ \E a \in Axes : Faulted[a]
  /\ timeSinceStartUp = STARTUP_TIME + 2
  /\ ticksSinceAccept = 0
  /\ ~seen.button /\ ~buttonPushed

\* An update() restarted the button-release timer: the timer was set to 0 and
\* then advanced once, instead of advancing from its value on entry.
ReleaseTimerRestarted ==
  timeSinceButtonRelease >= 1 /\ timeSinceButtonRelease' = 1

\* C13: the button-release timer is restarted exactly in the first call, since
\* the last completed reset, that finds the button latch set and reads the
\* button pin released; a later press and release before a reset completes
\* (release latch already set) does not restart it.
C13_OneShotReleaseTimer ==
  [][ReleaseTimerRestarted <=>
       (buttonPushed /\ ~buttonReleased /\ ~seen'.button)]_vars

\* the button is pressed again after its first release, with the timer
\* started by that release still running
C13_Witness ==
  /\ buttonPushed /\ buttonReleased /\ seen.button
  /\ timeSinceButtonRelease > 1
  /\ timeSinceButtonRelease < timeSinceStartUp

\* C14 as stated: each of the four timers is at most MAX_TIME in every
\* reachable state.
C14_TimerCeiling ==
  /\ timeSinceStartUp <= MAX_TIME
  /\ timeSinceButtonRelease <= MAX_TIME
  /\ timeSinceEnable <= MAX_TIME
  /\ timeSinceEStop <= MAX_TIME

\* C15 as stated: when update() returns, unhome equals estopped and
\* timeSinceEStop > UNHOME_TIME on the values the same call leaves.
C15_UnhomeCurrentState ==
  unhome = (estopped /\ timeSinceEStop > UNHOME_TIME)

\* C15 amended: when update() returns, unhome equals estopped and
\* timeSinceEStop > UNHOME_TIME on the values the previous call left; unhome
\* true implies that estopped was true when the previous call returned.
C15_UnhomePreviousState ==
  [][/\ unhome' = (estopped /\ timeSinceEStop > UNHOME_TIME)
     /\ unhome' => estopped]_vars

\* the call that completes a reset and clears estopped still raises unhome
C15_Witness == unhome /\ ~estopped /\ reset

\* C16 as stated: unhome is true at the end of the (UNHOME_TIME + 1)-th
\* consecutive call that leaves estopped set, and stays true after it.
C16_UnhomeAfterDelay ==
  ticksStopped >= UNHOME_TIME + 1 => unhome

\* C16 amended: after estopped goes from clear to set, unhome is false at the
\* end of the first UNHOME_TIME + 2 consecutive calls that leave estopped set,
\* true at the end of the (UNHOME_TIME + 3)-th, and stays true while estopped
\* stays set without being set again by a reset.
C16_UnhomeAfterDelayPlusTwo ==
  [][/\ (~estopped /\ estopped') => ~unhome'
     /\ ticksStopped' \in 2..(UNHOME_TIME + 2) => ~unhome'
     /\ ticksStopped' >= UNHOME_TIME + 3 => unhome']_vars

\* the first call that raises unhome after estopped was set
C16_Witness == ticksStopped = UNHOME_TIME + 3 /\ unhome /\ estopped

\* C17: if estopped goes from clear to set in call t and a reset completes in
\* a call before t + UNHOME_TIME, unhome is false at the end of every call
\* from t to the completing call, and at the end of the call after it.
C17_ShortStopNeverUnhomes ==
  [][/\ (~estopped /\ estopped') => ~unhome'
     /\ ticksStopped' \in 2..UNHOME_TIME => ~unhome'
     /\ (reset' /\ ticksStopped \in 1..(UNHOME_TIME - 1)) => ~unhome'
     /\ reset => ~unhome']_vars

\* estopped was set in the last call and the reset of a recovery sequence
\* accepted before it completes in the next call
C17_Witness ==
  /\ ticksStopped = UNHOME_TIME - 1
  /\ userRequestedEnable /\ ticksSinceAccept = RESET_TIME
  /\ ~unhome

\* The last update() printed the spindle error message.
SpindleMessage(msgs) == \E m \in msgs : m[1] = "spindle"

\* A message is printed exactly by the calls that find the latch clear and
\* leave it set.
EdgeTriggered(printed, was, is) == printed <=> (~was /\ is)

\* A message is printed by every call that finds the latch clear and leaves it
\* set, and only by calls that find the latch clear and either leave it set
\* or complete the reset.
EdgeTriggeredUnlessReset(printed, was, is, rst) ==
  /\ (~was /\ is) => printed
  /\ printed => (~was /\ (is \/ rst))

\* C18 as stated: for each fault source (axis fault, axis following error,
\* spindle code, spindle communication, button) update() prints the source's
\* message if and only if the source's latch was clear when the previous call
\* returned and is set when this call returns.
C18_EdgeTriggeredDiagnostics ==
  [][/\ \A a \in Axes :
          /\ EdgeTriggered(<<"fault", a>> \in seen'.msgs,
                           Faulted[a], Faulted'[a])
          /\ EdgeTriggered(<<"ferror", a>> \in seen'.msgs,
                           FErrored[a], FErrored'[a])
     /\ EdgeTriggered(SpindleMessage(seen'.msgs),
                      spindleErroredWithCode # 0, spindleErroredWithCode' # 0)
     /\ EdgeTriggered(<<"modbus">> \in seen'.msgs,
                      spindleModbusNotOk, spindleModbusNotOk')
     /\ EdgeTriggered(<<"button">> \in seen'.msgs,
                      buttonPushed, buttonPushed')]_vars

\* C18 amended: for each fault source update() prints the source's message in
\* every call that finds the latch clear and leaves it set, and in no call
\* that finds the latch set; a call that prints the message leaves the latch
\* set unless it completes the reset, which clears the latch after the
\* message was printed.
C18_EdgeTriggeredUnlessReset ==
  [][/\ \A a \in Axes :
          /\ EdgeTriggeredUnlessReset(<<"fault", a>> \in seen'.msgs,
                                      Faulted[a], Faulted'[a], reset')
          /\ EdgeTriggeredUnlessReset(<<"ferror", a>> \in seen'.msgs,
                                      FErrored[a], FErrored'[a], reset')
     /\ EdgeTriggeredUnlessReset(SpindleMessage(seen'.msgs),
                                 spindleErroredWithCode # 0,
                                 spindleErroredWithCode' # 0, reset')
     /\ EdgeTriggeredUnlessReset(<<"modbus">> \in seen'.msgs,
                                 spindleModbusNotOk, spindleModbusNotOk',
                                 reset')
     /\ EdgeTriggeredUnlessReset(<<"button">> \in seen'.msgs,
                                 buttonPushed, buttonPushed', reset')]_vars

\* a call that completes the reset prints a following-error message and
\* returns with the latch clear
C18_Witness ==
  reset /\ \E a \in Axes : <<"ferror", a>> \in seen.msgs /\ ~FErrored[a]

\* C19 as stated: when the spindle error latch goes from clear to set in an
\* update() that reads a non-zero code c from the spindle error code pin, the
\* latched code the call leaves equals c.
C19_SpindleCodeCapture ==
  [][(spindleErroredWithCode = 0 /\ spindleErroredWithCode' # 0) =>
       spindleErroredWithCode' = seen'.spindleErrorCode]_vars

\* C20: in every update() the local fault equals the condition on the pins
\* read by that call: some axis fault pin while communication errors are not
\* ignored, or some following-error pin, or a non-zero spindle error code
\* while communication errors are not ignored, or modbus not ok while
\* communication errors are not ignored, or the button; whatever the latches
\* and timers are.
C20_FaultAggregator == seen.fault = seen.rawFault

\* a fault computed by a call that enters and returns with every latch clear
\* and the guard of the latches still closed after start
C20_Witness ==
  /\ seen.fault /\ seen.rawFault
  /\ AllLatchesClear /\ ~reset
  /\ timeSinceStartUp \in 2..STARTUP_TIME

\* C21: update() accepts a recovery request if and only if it enters with
\* userRequestedEnable clear and either reads the user-request-enable pin set
\* or enters with the release latch set and the button-release timer above
\* STARTUP_TIME; a call that accepts returns with userRequestedEnable set and
\* the enable-request timer restarted (0, advanced once); a call that enters
\* with userRequestedEnable set never restarts that timer, whatever the pin.
C21_RecoveryAcceptance ==
  [][/\ (accepted' \/ (~userRequestedEnable /\ userRequestedEnable')) <=>
          /\ ~userRequestedEnable
          /\ \/ seen'.userRequestEnable
             \/ buttonReleased /\ timeSinceButtonRelease > STARTUP_TIME
     /\ accepted' => (userRequestedEnable' /\ timeSinceEnable' = 1)
     /\ userRequestedEnable =>
          (timeSinceEnable' > 1 /\ timeSinceEnable' >= timeSinceEnable)]_vars

\* the user-request-enable pin is set in a call of a recovery sequence in
\* progress, and the enable-request timer goes on
C21_Witness ==
  /\ userRequestedEnable /\ seen.userRequestEnable
  /\ ticksSinceAccept \in 1..RESET_TIME
  /\ timeSinceEnable = ticksSinceAccept + 1

\* A call accepts a recovery request while it reads the user-request-enable
\* pin clear.
AutomaticAcceptance == accepted' /\ ~seen'.userRequestEnable

\* C22 as stated: a request accepted by a call that reads the
\* user-request-enable pin clear is accepted only if the button pin was read
\* released by more than STARTUP_TIME consecutive calls up to that call.
C22_SustainedRelease ==
  [][AutomaticAcceptance => seen'.ticksReleased > STARTUP_TIME]_vars

\* C22 amended: a request accepted by a call that reads the
\* user-request-enable pin clear is accepted only if the call enters with the
\* button latch and the release latch set and with the button-release timer,
\* restarted by the first release only, above STARTUP_TIME; the button pin
\* need not have stayed released.
C22_LatchedRelease ==
  [][AutomaticAcceptance =>
       /\ buttonPushed /\ buttonReleased
       /\ timeSinceButtonRelease > STARTUP_TIME]_vars

\* a request accepted automatically by a call that reads the button pressed
C22_Witness ==
  accepted /\ ~seen.userRequestEnable /\ seen.ticksReleased = 0

\* C23 as stated: after a following error read by a call strictly between the
\* accepting call and the call that completes the reset, stop stays asserted
\* and enable is not granted until another request is accepted: not by the
\* completion of the sequence in progress either.
C23_FaultCancelsSequence == seen.ferrorInSequence => (estop /\ ~emcEnable)

\* C23 amended: after a following error read by a call strictly between the
\* accepting call and the call that completes the reset, stop is asserted
\* through call RESET_TIME of the sequence; the completing call of the same
\* sequence clears the latch and grants enable exactly when the pins it reads
\* hold no fault and grant run permission.
C23_FaultDoesNotCancelSequence ==
  /\ (seen.ferrorInSequence /\ ticksSinceAccept \in 1..RESET_TIME) =>
       (estop /\ ~emcEnable)
  /\ (seen.ferrorInSequence /\ reset) =>
       /\ \A a \in Axes : ~FErrored[a]
       /\ emcEnable <=> seen.permitted

\* the sequence in progress completes and grants enable after a following
\* error read during it
C23_Witness == seen.ferrorInSequence /\ reset /\ emcEnable /\ ~estop

\* C24 as stated: every update() that raises emc-enable from false to true
\* returns with machine-on false.
C24_MachineOnLagsEnable ==
  [][(~emcEnable /\ emcEnable') => ~machineOn']_vars

\* update() is entered within STARTUP_TIME calls of the start or of the
\* restart of the button-release timer.
InGraceWindow ==
  timeSinceStartUp <= STARTUP_TIME \/ timeSinceButtonRelease <= STARTUP_TIME

\* C25: a call entered in the grace window with every fault latch clear, that
\* reads an axis fault (not ignored) with run permission granted, no
\* following error and the button released, returns with stop asserted and
\* every fault latch still clear; the first call after it that reads pins
\* without fault returns with stop false and emc-enable true, whether or not
\* a recovery request was accepted.
C25_SuppressionAsymmetry ==
  [][/\ (FaultLatchesClear /\ InGraceWindow /\ seen'.axisFaultOnly) =>
          (estop' /\ ~emcEnable' /\ FaultLatchesClear')
     /\ (FaultLatchesClear /\ seen.axisFaultOnly /\ seen'.permitted) =>
          (~estop' /\ emcEnable' /\ FaultLatchesClear')]_vars

\* an axis fault stops the machine in the grace window after start, nothing
\* is latched and no request was ever accepted
C25_Witness ==
  /\ seen.axisFaultOnly /\ estop /\ FaultLatchesClear
  /\ timeSinceStartUp \in 2..STARTUP_TIME
  /\ ticksSinceAccept = -1

\* C26: with a request accepted by call 0, whatever the pins are afterwards,
\* userRequestedEnable is set at the end of each of the calls 0 .. RESET_TIME,
\* the reset branch runs in call RESET_TIME + 1 and in no other call of the
\* sequence, and userRequestedEnable is clear at the end of call
\* RESET_TIME + 1.
C26_RecoveryCompletesOnce ==
  /\ ticksSinceAccept \in 0..RESET_TIME => (userRequestedEnable /\ ~reset)
  /\ ticksSinceAccept = RESET_TIME + 1 => (reset /\ ~userRequestedEnable)
  /\ ticksSinceAccept > RESET_TIME + 1 => (~reset /\ ~userRequestedEnable)
  /\ ticksSinceAccept = -1 => (~reset /\ ~userRequestedEnable)

\* the call that completes a sequence during which the machine was stopped
\* again and is still stopped
C26_Witness ==
  /\ ticksSinceAccept = RESET_TIME + 1 /\ reset /\ ~userRequestedEnable
  /\ estop /\ ticksStopped = 1

\* The condition of a fault source is on the pins of the call that completed
\* a reset (the state before the step) and of the call after it (the step).
StillPresent(src) == reset /\ src \in seen'.stillPresent

\* The guard of the guarded latches is open in the call after the reset: the
\* button is released and not latched and the three timers are past their
\* thresholds on entry.
GuardOpenAfterReset ==
  /\ <<"pressed">> \notin seen'.stillPresent
  /\ ~buttonPushed
  /\ timeSinceStartUp > STARTUP_TIME
  /\ timeSinceEnable > RESET_TIME
  /\ timeSinceButtonRelease > STARTUP_TIME

\* The call after the reset printed the message of the source again, and
\* stop was asserted at the end of both calls.
Relatched(latched, printed) == latched /\ printed /\ estop /\ estop'

\* C28: if the condition of a fault source is on the pins of the call that
\* completes a reset and on the pins of the next call, then the latch of the
\* source is set again at the end of the next call, its message is printed
\* again by that call and stop is asserted at the end of both calls; for a
\* following error and the button always, for an axis fault, the spindle
\* error code and the modbus loss when the guard is open in the next call.
C28_RelatchAfterReset ==
  [][/\ \A a \in Axes :
          /\ StillPresent(<<"ferror", a>>) =>
               Relatched(FErrored'[a], <<"ferror", a>> \in seen'.msgs)
          /\ (StillPresent(<<"fault", a>>) /\ GuardOpenAfterReset) =>
               Relatched(Faulted'[a], <<"fault", a>> \in seen'.msgs)
     /\ StillPresent(<<"button">>) =>
          Relatched(buttonPushed', <<"button">> \in seen'.msgs)
     /\ (StillPresent(<<"spindle">>) /\ GuardOpenAfterReset) =>
          Relatched(spindleErroredWithCode' # 0, SpindleMessage(seen'.msgs))
     /\ (StillPresent(<<"modbus">>) /\ GuardOpenAfterReset) =>
          Relatched(spindleModbusNotOk', <<"modbus">> \in seen'.msgs)]_vars

\* the call after a reset latches again an axis fault that was on the pins
\* of the completing call, and prints its message
C28_Witness ==
  /\ ticksSinceAccept = RESET_TIME + 2 /\ estop
  /\ \E a \in Axes :
       /\ <<"fault", a>> \in seen.stillPresent /\ <<"fault", a>> \in seen.msgs
       /\ Faulted[a]

\* A timer advanced by exactly one, or kept its value having reached its
\* ceiling.
TimerStep(old, new) == new = old + 1 \/ (new = old /\ old >= MAX_TIME)

\* C29: over one update() each timer advances by exactly one, or keeps its
\* value (only once it has reached its ceiling), or is restarted, and only by
\* its own event: the button-release timer by the first release of the
\* latched button, the enable-request timer by the acceptance of a request
\* (both are set to 0 and advanced by the same call), the stop timer by
\* estopped being set, from clear on entry or after the reset of the same
\* call cleared it (set to 0 after it was advanced); the startup timer is
\* never restarted and never decreases.
C29_TimersNeverWrap ==
  [][/\ TimerStep(timeSinceStartUp, timeSinceStartUp')
     /\ \/ TimerStep(timeSinceButtonRelease, timeSinceButtonRelease')
        \/ /\ timeSinceButtonRelease' = 1
           /\ buttonPushed /\ ~buttonReleased /\ ~seen'.button
     /\ \/ TimerStep(timeSinceEnable, timeSinceEnable')
        \/ timeSinceEnable' = 1 /\ accepted'
     /\ \/ TimerStep(timeSinceEStop, timeSinceEStop')
        \/ /\ timeSinceEStop' = 0
           /\ estopped' /\ (~estopped \/ reset')]_vars

\* the startup timer at its ceiling while the stop timer was just restarted
\* and the enable-request timer is running
C29_Witness ==
  /\ timeSinceStartUp > MAX_TIME
  /\ timeSinceEStop = 0 /\ estopped
  /\ timeSinceEnable \in 1..MAX_TIME

\* C27: reset-pin, for every thread period and every delay: whenever in
\* differs from value, in is made equal to value after finitely many ticks
\* unless another component writes the pins first; out equals in at the end
\* of every tick; and time is 0 at the end of every tick that started with
\* in equal to value.
C27_ResetPinResets ==
  /\ [](rp.in # rp.value => <>(rp.in = rp.value \/ rp.written))
  /\ [][rpUpdate => /\ rp'.out = rp'.in
                    /\ (rp.in = rp.value => rp'.time = 0)]_rp

\* The order of the hard-stop homing sequence.
HardStopPath ==
  {<<"UNPOWERED", "POWERED">>, <<"POWERED", "CYCLE_POWER_OFF">>,
   <<"CYCLE_POWER_OFF", "CYCLE_POWER_ON">>,
   <<"CYCLE_POWER_ON", "BEGIN_HOMING">>, <<"BEGIN_HOMING", "HOMING">>,
   <<"HOMING", "STOP_MOVING">>, <<"STOP_MOVING", "HOMED">>,
   <<"HOMED", "READY">>, <<"READY", "CYCLE_POWER_OFF">>}

\* One step of a HARDSTOP axis with the machine on, the enable pin false for
\* off consecutive ticks per homing run and trigger_home true for trig:
\* the state changes along the path only; after the tick homed is true in
\* READY only and trigger_home in HOMED only; a stretch of ticks with
\* enable false, all of them and the tick that ends it with the machine on
\* and the type HARDSTOP, is off ticks long and one with trigger_home true
\* is trig ticks long, and while they last they are no longer.
HardStopStep(off, trig) ==
  ch'.steady >= 1 =>
    /\ ch'.state # ch.state => <<ch.state, ch'.state>> \in HardStopPath
    /\ ch'.homed => ch'.state = "READY"
    /\ ch'.trigger_home => ch'.state = "HOMED"
    /\ (~ch.enable /\ ch'.enable /\ ch.state = "CYCLE_POWER_OFF"
        /\ ch'.steady > ch.enableOff) => ch.enableOff = off
    /\ (~ch'.enable /\ ch'.steady >= ch'.enableOff) => ch'.enableOff <= off
    /\ (ch.trigger_home /\ ~ch'.trigger_home /\ ch'.steady > ch.triggerOn)
         => ch.triggerOn = trig
    /\ (ch'.trigger_home /\ ch'.steady >= ch'.triggerOn)
         => ch'.triggerOn <= trig

C31_StallDetection ==
  [][/\ (ch.state = "HOMING" /\ ch'.state = "STOP_MOVING"
         /\ ch'.steady > HOMING_CYCLES)
          => /\ ch.zeroRun >= HOMING_CYCLES
             /\ ch.cycles_homed = HOMING_CYCLES
     /\ (ch'.state = "HOMING" /\ ch'.type = "HARDSTOP" /\ ch'.zeroRun = 0)
          => ch'.cycles_homed = 0
     /\ (ch.state = "BEGIN_HOMING" /\ ch'.state = "HOMING")
          => ch'.cycles_homed = ch'.zeroRun]_ch

\* HOMING has just been left for STOP_MOVING, by a tick that with the
\* HOMING_CYCLES ticks before it read the type HARDSTOP.
C31_Witness ==
  /\ ch.state = "STOP_MOVING"
  /\ ch.cycles = 0
  /\ ch.steady > HOMING_CYCLES

\* C32: clearpath_homing, whatever the type pin holds: after every tick
\* that read machine_on false the state is UNPOWERED and the enable, homed,
\* homing, moving and trigger_home outputs are false.
C32_PowerInterlock ==
  ~ch.machine_on =>
    /\ ch.state = "UNPOWERED"
    /\ ~ch.enable
    /\ ~ch.homed
    /\ ~ch.homing
    /\ ~ch.moving
    /\ ~ch.trigger_home

\* C33: pro-estop: at the end of every tick buttonReleased implies
\* buttonPushed; buttonReleased is set only by a tick that found
\* buttonPushed set on entry; and the two latches are cleared together, by
\* the tick that completes a reset and by no other.
C33_ReleaseImpliesPush ==
  [][/\ buttonReleased' => buttonPushed'
     /\ (~buttonReleased /\ buttonReleased') => buttonPushed
     /\ ((buttonPushed /\ ~buttonPushed')
         \/ (buttonReleased /\ ~buttonReleased'))
          => (reset' /\ ~buttonPushed' /\ ~buttonReleased')]_vars

\* The release latch has been set and no reset has completed since.
C33_Witness == buttonReleased /\ buttonPushed /\ ~reset

\* C34: pro-estop: at the end of every tick the five motor enable outputs
\* are equal; if they are false, userRequestedEnable is true and
\* timeSinceEnable is at most DISABLE_MOTOR_TIME (100); and while no
\* recovery sequence is in progress (userRequestedEnable false, as it is
\* from start-up to the first acceptance) they are all true.
C34_MotorEnables ==
  /\ \A a \in Motors, b \in Motors : MotorEnable[a] = MotorEnable[b]
  /\ (\E a \in Motors : ~MotorEnable[a]) =>
       (userRequestedEnable /\ timeSinceEnable <= DISABLE_MOTOR_TIME)
  /\ ~userRequestedEnable => \A a \in Motors : MotorEnable[a]
  /\ ticksSinceAccept = -1 => \A a \in Motors : MotorEnable[a]

\* the last tick of a recovery sequence that leaves the motors disabled
C34_Witness ==
  /\ userRequestedEnable
  /\ timeSinceEnable = DISABLE_MOTOR_TIME
  /\ \A a \in Motors : ~MotorEnable[a]

\* C35: pro-estop: at the end of every tick machineOn is false whenever
\* userRequestedEnable is true or a motor enable output is false; and from
\* the tick that accepts a recovery request through the MACHINE_ON_TIME - 1
\* (1099) ticks after it machineOn is false, whatever the machine's state
\* was at acceptance: a machineOn that was true is taken away.
C35_MachineOnInterlock ==
  [][/\ (userRequestedEnable' \/ \E a \in Motors : ~MotorEnable'[a])
          => ~machineOn'
     /\ ticksSinceAccept' \in 0..(MACHINE_ON_TIME - 1) => ~machineOn'
     /\ (machineOn /\ accepted') => ~machineOn']_vars

\* The last tick of the window after an acceptance, with nothing stopping the
\* machine: emc-enable is true and machineOn is still false.
C35_Witness ==
  /\ ticksSinceAccept = MACHINE_ON_TIME - 1
  /\ emcEnable
  /\ AllLatchesClear
  /\ ~machineOn

\* C36: pro-estop: on every tick the stop value the code computes, from the
\* latch values captured on entry, equals NOT(NOT instantaneousFault AND
\* runPermission AND (NOT anyLatchedFault OR resetCompletedThisTick)) with
\* anyLatchedFault taken after this tick's latch updates and before the
\* reset clears the latches: a latch newly set in a tick does not change stop.
C36_StopFormulaEquivalence ==
  [][estop' = seen'.stopAfterLatching]_vars

\* a tick that set a latch when none was set on entry
C36_Witness == seen.newlyLatched /\ estop /\ seen.stopAfterLatching

\* the latches of the sources that ignore-com-errors masks
ComLatches == <<Faulted, spindleErroredWithCode, spindleModbusNotOk>>
ComLatched ==
  \/ \E a \in Axes : Faulted[a]
  \/ spindleErroredWithCode # 0
  \/ spindleModbusNotOk

\* C37: pro-estop: on every tick that reads ignoreComErrors asserted, no
\* axis fault latch, spindle code latch or modbus latch goes from clear to
\* set, and the axis fault, spindle error code and modbus pins do not
\* contribute to stop; the latches set before stay set and keep stop
\* asserted until a reset completes.
C37_IgnoreMasksLatching ==
  [][seen'.ignoreComErrors =>
       /\ \A a \in Axes : Faulted'[a] => Faulted[a]
       /\ spindleErroredWithCode' # 0 => spindleErroredWithCode # 0
       /\ spindleModbusNotOk' => spindleModbusNotOk
       /\ estop' = seen'.stopWithoutCom
       /\ (ComLatched /\ ~reset') => (ComLatches' = ComLatches /\ estop')]_vars

\* a tick that read ignoreComErrors asserted and a fault on the pins it
\* masks, and left the machine enabled
C37_Witness ==
  /\ seen.ignoreComErrors
  /\ seen.comFault
  /\ ~estop
  /\ emcEnable

\* C38: pro-estop, with the user-request-enable pin held asserted: a new
\* request is accepted on the tick after the one that completes a sequence,
\* RESET_TIME + 2 (1002) ticks after the acceptance before; the motor enable
\* outputs are false on the first DISABLE_MOTOR_TIME (100) ticks of each
\* sequence and on no other; timeSinceEnable does not exceed
\* MACHINE_ON_TIME (1100) and machineOn is never true.
C38_LevelTriggeredRequest ==
  [][seen'.ticksRequested >= 1 =>
       /\ reset => accepted'
       /\ (seen'.ticksRequested >= 2 /\ accepted')
            => (reset /\ ticksSinceAccept = RESET_TIME + 1)
       /\ (\A a \in Motors : ~MotorEnable'[a])
            <=> ticksSinceAccept' \in 0..(DISABLE_MOTOR_TIME - 1)
       /\ (\E a \in Motors : ~MotorEnable'[a])
            <=> ticksSinceAccept' \in 0..(DISABLE_MOTOR_TIME - 1)
       /\ timeSinceEnable' <= MACHINE_ON_TIME
       /\ ~machineOn']_vars

\* A request accepted with the pin held asserted since the acceptance before:
\* through a whole sequence and the tick after it.
C38_Witness ==
  /\ accepted
  /\ seen.ticksRequested = RESET_TIME + 3

\* C39: pro-estop: when the tick that completes a reset still computes stop,
\* estopped is true again at the end of that tick and timeSinceEStop has
\* been restarted to 0; and unhome, even if that tick still asserted it, is
\* false at the end of the next tick and of every later tick that leaves
\* timeSinceEStop at UNHOME_TIME (100) or less.
C39_FailedRecovery ==
  [][/\ (reset' /\ estop') =>
          (estopped' /\ timeSinceEStop' = 0 /\ ticksStopped' = 1)
     /\ (reset /\ estopped) => ~unhome'
     /\ (~reset' /\ timeSinceEStop' <= UNHOME_TIME) => ~unhome'
     /\ ticksStopped' \in 2..(UNHOME_TIME + 1) =>
          (~unhome' /\ timeSinceEStop' <= UNHOME_TIME)]_vars

\* the tick that completes a reset, computes stop again and still asserts
\* unhome from the stop before
C39_Witness ==
  /\ reset
  /\ estop
  /\ estopped
  /\ timeSinceEStop = 0
  /\ unhome

====
